---------------------------- MODULE Spec2Model ----------------------------
(***************************************************************************)
(* Model of the Go package `money` (src/money.go).                         *)
(*                                                                         *)
(* The package is a library of pure functions over an immutable value      *)
(* type.  The state of the model is the Money value a caller holds (m)     *)
(* and the record of the last call made (call): its inputs and its         *)
(* results.  One action per exported function or method.                   *)
(*                                                                         *)
(* float64 values are modelled as exact rationals num / FloatDen.  On the  *)
(* inputs used here (multiples of 1/8 of small magnitude) every float64    *)
(* product, quotient and sum computed by the code is exact, or, for the    *)
(* 0.00001 of RoundHalfDown, differs from the exact value by far less      *)
(* than its distance to the next integer, so the exact computation and     *)
(* the float64 computation give the same int64.                            *)
(*                                                                         *)
(* Strings are sequences of one-character strings.                         *)
(***************************************************************************)
EXTENDS Integers, Sequences, FiniteSets, TLC

VARIABLES m, call

vars == <<m, call>>

---------------------------------------------------------------------------
(* Bounds of the model *)

\* New is called with the finite values -MaxValueNum/8 .. MaxValueNum/8
MaxValueNum == 12

\* Multiply and Divide are called with -MaxFactorNum/8 .. MaxFactorNum/8
MaxFactorNum == 8

\* Split is called with n in -1 .. MaxParts
MaxParts == 4

\* round is applied only to scaled values of magnitude at most MaxScaled
\* (the rational arithmetic of RoundHalfDown stays within TLC's integers)
MaxScaled == 20000

---------------------------------------------------------------------------
(* float64 *)

FloatDen == 2 ^ 3

Fin(num) == [kind |-> "fin", num |-> num]
NaN      == [kind |-> "nan", num |-> 0]
PosInf   == [kind |-> "inf", num |-> 1]
NegInf   == [kind |-> "inf", num |-> -1]

\* math.IsNaN(f) || math.IsInf(f, 0)
IsNaNOrInf(f) == f.kind # "fin"

Abs(i) == IF i < 0 THEN -i ELSE i

\* math.Pow10(e) for the scales of the registry
RECURSIVE Pow10(_)
Pow10(e) == IF e <= 0 THEN 1 ELSE 10 * Pow10(e - 1)

\* Go's integer division and remainder truncate toward zero
GoDiv(a, b) ==
    IF (a >= 0) = (b > 0) THEN Abs(a) \div Abs(b) ELSE -(Abs(a) \div Abs(b))

GoMod(a, b) == a - b * GoDiv(a, b)

\* int64(x) of a finite float64 x = num/den: the fraction is discarded
Int64Conv(num, den) == GoDiv(num, den)

\* math.Floor, math.Ceil of num/den, den > 0 (integer valued)
MathFloor(num, den) == num \div den
MathCeil(num, den)  == -((-num) \div den)

\* math.Round of num/den: nearest integer, halves away from zero
MathRound(num, den) ==
    IF num >= 0 THEN (2 * num + den) \div (2 * den)
                ELSE -((2 * (-num) + den) \div (2 * den))

\* math.Modf: the numerator of the fractional part, carrying the sign of x
ModfFrac(num, den) == num - den * GoDiv(num, den)

---------------------------------------------------------------------------
(* RoundingMode, money.go:15-21 *)

RoundHalfUp   == 0
RoundHalfDown == 1
RoundUp       == 2
RoundDown     == 3
RoundHalfEven == 4

\* the five declared modes and one undeclared value (the default branch)
Modes == {RoundHalfUp, RoundHalfDown, RoundUp, RoundDown, RoundHalfEven, 5}

\* the 0.00001 of RoundHalfDown is 1/EpsDen
EpsDen == 10 ^ 5

\* round(amount, scale, mode), amount = num/FloatDen
round(num, scale, mode) ==
    LET multiplier == Pow10(scale)
        scaled     == num * multiplier          \* over FloatDen
    IN  CASE mode = RoundHalfUp   -> Int64Conv(MathRound(scaled, FloatDen), 1)
          [] mode = RoundHalfDown ->
                Int64Conv(scaled * (EpsDen \div FloatDen) + (EpsDen \div 2) - 1,
                          EpsDen)
          [] mode = RoundUp       -> Int64Conv(MathCeil(scaled, FloatDen), 1)
          [] mode = RoundDown     -> Int64Conv(MathFloor(scaled, FloatDen), 1)
          [] mode = RoundHalfEven ->
                IF 2 * Abs(ModfFrac(scaled, FloatDen)) = FloatDen
                THEN IF GoMod(Int64Conv(scaled, FloatDen), 2) = 0
                     THEN Int64Conv(MathFloor(scaled, FloatDen), 1)
                     ELSE Int64Conv(MathCeil(scaled, FloatDen), 1)
                ELSE Int64Conv(MathRound(scaled, FloatDen), 1)
          [] OTHER                -> Int64Conv(MathRound(scaled, FloatDen), 1)

---------------------------------------------------------------------------
(* Strings: sequences of one-character strings *)

USD == <<"U", "S", "D">>
EUR == <<"E", "U", "R">>
JPY == <<"J", "P", "Y">>

\* strings.ToUpper, on the letters the model's inputs use
UpperChar(c) ==
    CASE c = "u" -> "U" [] c = "s" -> "S" [] c = "d" -> "D"
      [] c = "j" -> "J" [] c = "p" -> "P" [] c = "y" -> "Y"
      [] OTHER -> c

ToUpper(s) == [i \in DOMAIN s |-> UpperChar(s[i])]

---------------------------------------------------------------------------
(* Errors, money.go:31-39.  A Go error is compared by identity: id is the  *)
(* identity of the value, msg its text.                                     *)

NilErr == [id |-> "nil", msg |-> ""]

ErrInvalidCurrency   == [id |-> "ErrInvalidCurrency", msg |-> "invalid currency"]
ErrInvalidAmount     == [id |-> "ErrInvalidAmount", msg |-> "invalid amount"]
ErrInvalidFactor     == [id |-> "ErrInvalidFactor", msg |-> "invalid factor"]
ErrInvalidDivisor    == [id |-> "ErrInvalidDivisor", msg |-> "invalid divisor"]
ErrInvalidSplitParts ==
    [id |-> "ErrInvalidSplitParts", msg |-> "invalid number of split parts"]
ErrCannotDealWithDifferentCurrencies ==
    [id |-> "ErrCannotDealWithDifferentCurrencies",
     msg |-> "cannot deal with different currencies"]
ErrParseAmount       == [id |-> "ErrParseAmount", msg |-> "error parsing amount"]

\* the package's declared error values
Sentinels ==
    {ErrInvalidCurrency, ErrInvalidAmount, ErrInvalidFactor, ErrInvalidDivisor,
     ErrInvalidSplitParts, ErrCannotDealWithDifferentCurrencies, ErrParseAmount}

\* errors.New(msg) evaluated at a call site: a value of its own identity
ErrorsNew(site, msg) == [id |-> site, msg |-> msg]

---------------------------------------------------------------------------
(* The currency registry: code -> scale.  Its table is not among the       *)
(* sources; the scales are those the tests and the specification name.     *)

Currencies == (USD :> 2) @@ (EUR :> 2) @@ (JPY :> 0)

Registered(code) == code \in DOMAIN Currencies

---------------------------------------------------------------------------
(* Money, money.go:24-29.  A *Money is a sequence: <<>> is nil.            *)

Money(amount, currency, scale, divisor) ==
    [amount |-> amount, currency |-> currency, scale |-> scale,
     divisor |-> divisor]

Ret(moneys, err) == [out |-> moneys, err |-> err]

\* New(amount, currencyCode, mode)
New(amount, currencyCode, mode) ==
    IF IsNaNOrInf(amount)
    THEN Ret(<<>>, ErrorsNew("money.go:74", "invalid amount"))
    ELSE LET code == ToUpper(currencyCode)
         IN  IF ~Registered(code)
             THEN Ret(<<>>, ErrInvalidCurrency)
             ELSE LET scale == Currencies[code]
                      cents == round(amount.num * Pow10(scale), scale, mode)
                  IN  Ret(<<Money(cents, code, scale, Pow10(scale))>>, NilErr)

\* NewFromSmallestUnit(cents, currencyCode)
NewFromSmallestUnit(cents, currencyCode) ==
    IF ~Registered(currencyCode)
    THEN Ret(<<>>, ErrInvalidCurrency)
    ELSE LET scale == Currencies[currencyCode]
         IN  Ret(<<Money(cents, currencyCode, scale, Pow10(scale))>>, NilErr)

\* m.SmallestUnit(), m.Currency()
SmallestUnit(x) == x.amount
Currency(x)     == x.currency

\* Add without the comparison of the currencies
AddUnchecked(x, other) ==
    NewFromSmallestUnit(x.amount + other.amount, x.currency)

\* m.Add(other)
Add(x, other) ==
    IF x.currency # other.currency
    THEN Ret(<<>>, ErrCannotDealWithDifferentCurrencies)
    ELSE NewFromSmallestUnit(x.amount + other.amount, x.currency)

\* m.Subtract(other)
Subtract(x, other) ==
    IF x.currency # other.currency
    THEN Ret(<<>>, ErrCannotDealWithDifferentCurrencies)
    ELSE NewFromSmallestUnit(x.amount - other.amount, x.currency)

\* m.Multiply(factor, mode); float64(m.amount)*factor = amount*factor.num/FloatDen
Multiply(x, factor, mode) ==
    IF IsNaNOrInf(factor)
    THEN Ret(<<>>, ErrInvalidFactor)
    ELSE LET newAmount == round(x.amount * factor.num, x.scale, mode)
         IN  NewFromSmallestUnit(newAmount, x.currency)

\* int64(f) of a float64 f that is NaN or infinite: the Go specification leaves
\* the value to the implementation.  The ends of the model's integers and zero
\* stand for the values the platforms produce.
ModelMaxInt == 2 ^ 30 + (2 ^ 30 - 1)
Int64OfNonFinite == {-ModelMaxInt, 0, ModelMaxInt}

\* m.Divide(divisor): the set of results the build can produce
Divide(x, divisor) ==
    IF IsNaNOrInf(divisor)
    THEN {Ret(<<>>, ErrInvalidDivisor)}
    ELSE IF divisor.num = 0
         THEN {NewFromSmallestUnit(a, x.currency) : a \in Int64OfNonFinite}
         ELSE LET num == IF divisor.num > 0 THEN x.amount * FloatDen
                                            ELSE -(x.amount * FloatDen)
                  newAmount == Int64Conv(MathRound(num, Abs(divisor.num)), 1)
              IN  {NewFromSmallestUnit(newAmount, x.currency)}

\* m.Split(n)
Split(x, n) ==
    IF n <= 0
    THEN Ret(<<>>, ErrInvalidSplitParts)
    ELSE LET baseAmount == GoDiv(x.amount, n)
             remainder  == GoMod(x.amount, n)
             results == [i \in 1 .. n |->
                           Money(IF (i - 1) < remainder THEN baseAmount + 1
                                                        ELSE baseAmount,
                                 x.currency, x.scale, 0)]
         IN  Ret(results, NilErr)

---------------------------------------------------------------------------
(* FormatOptions and Currency (fields as the tests and Format use them) *)

FormatOptions(symbol, decSep, thouSep, symFirst, showCur, spaceBetween) ==
    [Symbol |-> symbol, DecimalSep |-> decSep, ThousandsSep |-> thouSep,
     SymbolFirst |-> symFirst, ShowCurrency |-> showCur,
     SpaceBetween |-> spaceBetween]

\* the zero value of FormatOptions
ZeroFormat == FormatOptions(<<>>, <<>>, <<>>, FALSE, FALSE, FALSE)

CurrencyOf(code, scale, format) ==
    [Code |-> code, Scale |-> scale, DefaultFormat |-> format]

---------------------------------------------------------------------------
(* Format, money.go:235-296 *)

Digits == <<"0", "1", "2", "3", "4", "5", "6", "7", "8", "9">>

Max(a, b) == IF a > b THEN a ELSE b

\* strconv.FormatInt(i, 10) for i >= 0
RECURSIVE FormatInt(_)
FormatInt(i) ==
    IF i < 10 THEN <<Digits[i + 1]>>
              ELSE FormatInt(i \div 10) \o <<Digits[(i % 10) + 1]>>

\* for len(value) <= scale { value = "0" + value }
RECURSIVE PadZeros(_, _)
PadZeros(value, scale) ==
    IF Len(value) <= scale THEN PadZeros(<<"0">> \o value, scale) ELSE value

\* for i := len(intPart); i > 0; i -= 3 { ... prepend intPart[max(0,i-3):i] }
RECURSIVE GroupLoop(_, _, _)
GroupLoop(intPart, i, result) ==
    IF i > 0
    THEN LET start == Max(0, i - 3)
             group == SubSeq(intPart, start + 1, i)
         IN  GroupLoop(intPart, i - 3, <<group>> \o result)
    ELSE result

\* strings.Join(elems, sep)
RECURSIVE Join(_, _)
Join(elems, sep) ==
    IF elems = <<>> THEN <<>>
    ELSE IF Len(elems) = 1 THEN elems[1]
    ELSE elems[1] \o sep \o Join(Tail(elems), sep)

\* m.Format(opts)
Format(x, opts) ==
    LET sign      == IF x.amount < 0 THEN <<"-">> ELSE <<>>
        absAmount == IF x.amount < 0 THEN -x.amount ELSE x.amount
        scale     == x.scale
        value     == PadZeros(FormatInt(absAmount), scale)
        decimalPos == Len(value) - scale
        intPart0  == SubSeq(value, 1, decimalPos)
        fracPart  == SubSeq(value, decimalPos + 1, Len(value))
        intPart   == IF opts.ThousandsSep # <<>>
                     THEN Join(GroupLoop(intPart0, Len(intPart0), <<>>),
                               opts.ThousandsSep)
                     ELSE intPart0
        result    == IF scale > 0 THEN intPart \o opts.DecimalSep \o fracPart
                                  ELSE intPart
        space     == IF opts.SpaceBetween THEN <<" ">> ELSE <<>>
        code      == IF opts.ShowCurrency THEN space \o x.currency ELSE <<>>
    IN  IF opts.SymbolFirst
        THEN sign \o opts.Symbol \o space \o result \o code
        ELSE sign \o result \o space \o opts.Symbol \o code

---------------------------------------------------------------------------
(* Parse, money.go:214-232 *)

IsSpace(c) == c \in {" ", "\t", "\n", "\r"}

\* strings.TrimSpace
RECURSIVE TrimLeft(_)
TrimLeft(s) ==
    IF s # <<>> /\ IsSpace(Head(s)) THEN TrimLeft(Tail(s)) ELSE s

RECURSIVE TrimRight(_)
TrimRight(s) ==
    IF s # <<>> /\ IsSpace(s[Len(s)])
    THEN TrimRight(SubSeq(s, 1, Len(s) - 1)) ELSE s

TrimSpace(s) == TrimRight(TrimLeft(s))

\* strings.ReplaceAll(s, "", new): new before every character and at the end
RECURSIVE InsertAll(_, _)
InsertAll(s, new) ==
    IF s = <<>> THEN new ELSE new \o <<Head(s)>> \o InsertAll(Tail(s), new)

\* strings.ReplaceAll(s, old, new), old non-empty: leftmost, non-overlapping
RECURSIVE ReplaceNonEmpty(_, _, _)
ReplaceNonEmpty(s, old, new) ==
    IF Len(s) < Len(old) THEN s
    ELSE IF SubSeq(s, 1, Len(old)) = old
         THEN new \o ReplaceNonEmpty(SubSeq(s, Len(old) + 1, Len(s)), old, new)
         ELSE <<Head(s)>> \o ReplaceNonEmpty(Tail(s), old, new)

ReplaceAll(s, old, new) ==
    IF old = <<>> THEN InsertAll(s, new) ELSE ReplaceNonEmpty(s, old, new)

IsDigit(c) == \E d \in 1 .. 10 : Digits[d] = c

AllDigits(s, from, to) == \A i \in from .. to : IsDigit(s[i])

\* numberRegex.MatchString(s), numberRegex = ^-?\d*\.?\d+$
\* i: end of -?, j: end of \d*, k: end of \.?, then \d+ to the end
NumberRegexMatch(s) ==
    \E i \in 0 .. 1 : \E j \in i .. Len(s) : \E k \in j .. j + 1 :
        /\ i = 1 => (Len(s) >= 1 /\ s[1] = "-")
        /\ AllDigits(s, i + 1, j)
        /\ k = j + 1 => (k <= Len(s) /\ s[k] = ".")
        /\ k < Len(s)
        /\ AllDigits(s, k + 1, Len(s))

\* the lines 216-220 of Parse
Normalize(s, currency) ==
    LET s1 == TrimSpace(s)
        s2 == ReplaceAll(s1, currency.DefaultFormat.Symbol, <<>>)
        s3 == ReplaceAll(s2, currency.DefaultFormat.ThousandsSep, <<>>)
        s4 == ReplaceAll(s3, currency.DefaultFormat.DecimalSep, <<".">>)
    IN  TrimSpace(s4)

DigitVal(c) == (CHOOSE d \in 1 .. 10 : Digits[d] = c) - 1

RECURSIVE DigitsVal(_)
DigitsVal(ds) ==
    IF ds = <<>> THEN 0
    ELSE 10 * DigitsVal(SubSeq(ds, 1, Len(ds) - 1)) + DigitVal(ds[Len(ds)])

\* the decimal literal s (one that numberRegex matches) as sign, digits, exponent:
\* its value is sign * digits / 10^places
Literal(s) ==
    LET neg  == s[1] = "-"
        body == IF neg THEN Tail(s) ELSE s
        dots == {i \in DOMAIN body : body[i] = "."}
        dot  == IF dots = {} THEN Len(body) + 1 ELSE CHOOSE i \in dots : TRUE
    IN  [sign   |-> IF neg THEN -1 ELSE 1,
         digits |-> DigitsVal(SubSeq(body, 1, dot - 1)
                              \o SubSeq(body, dot + 1, Len(body))),
         places |-> Max(0, Len(body) - dot)]

\* the literal's value is a multiple of 1/FloatDen: strconv.ParseFloat
\* returns it exactly
ExactLiteral(s) ==
    LET l == Literal(s) IN (l.digits * FloatDen) % Pow10(l.places) = 0

\* strconv.ParseFloat(s, 64) of such a literal (err is nil: the literals of
\* the model are far from the range of float64)
ParseFloat(s) ==
    LET l == Literal(s)
    IN  Fin(l.sign * ((l.digits * FloatDen) \div Pow10(l.places)))

\* Parse(s, currency, mode)
Parse(s, currency, mode) ==
    LET norm == Normalize(s, currency)
    IN  IF ~NumberRegexMatch(norm)
        THEN Ret(<<>>, ErrParseAmount)
        ELSE New(ParseFloat(norm), currency.Code, mode)

---------------------------------------------------------------------------
(* Inputs of the calls *)

\* the caller goes on with a part Split returned only up to this magnitude
MaxTake == 10

\* Parse is called with every string over ParseAlphabet of length <= MaxLen
MaxLen == 4

\* round is called directly with -MaxRoundNum/8 .. MaxRoundNum/8
MaxRoundNum == 130

FiniteValues == {Fin(n) : n \in -MaxValueNum .. MaxValueNum}
Values       == FiniteValues \cup {NaN, PosInf, NegInf}

Factors == {Fin(n) : n \in -MaxFactorNum .. MaxFactorNum} \cup {NaN, PosInf, NegInf}

Codes == {USD, EUR, JPY, <<"u", "s", "d">>, <<"X", "X", "X">>}

Cents == {-123456, -100, -7, 0, 5, 100, 1234567}

OtherMoneys ==
    {NewFromSmallestUnit(c, code).out[1] : c \in Cents, code \in DOMAIN Currencies}

Scales == {Currencies[c] : c \in DOMAIN Currencies} \cup {1}

FormatChoices ==
    {FormatOptions(sym, dec, thou, sf, sc, sb) :
        sym \in {<<"$">>, <<>>}, dec \in {<<".">>, <<",">>},
        thou \in {<<",">>, <<>>}, sf \in BOOLEAN, sc \in BOOLEAN, sb \in BOOLEAN}

\* the currencies passed to Parse: those of TestParse (USD with and without a
\* format), a currency with "," for the decimals, and one of scale 0
ParseCurrencies ==
    {CurrencyOf(USD, 2, FormatOptions(<<"$">>, <<".">>, <<",">>, FALSE, FALSE, FALSE)),
     CurrencyOf(USD, 2, ZeroFormat),
     CurrencyOf(EUR, 2, FormatOptions(<<"E">>, <<",">>, <<".">>, FALSE, FALSE, FALSE)),
     CurrencyOf(JPY, 0, FormatOptions(<<"Y">>, <<".">>, <<",">>, FALSE, FALSE, FALSE))}

ParseAlphabet == {"5", ".", ",", "$", "-", " "}

Strings(alphabet, maxLen) ==
    UNION {[1 .. n -> alphabet] : n \in 0 .. maxLen}

ParseInputs == Strings(ParseAlphabet, MaxLen)

\* the scaled value num * 10^scale / FloatDen is one round is applied to
RoundInRange(num, scale) == Abs(num * Pow10(scale)) <= MaxScaled * FloatDen

---------------------------------------------------------------------------
(* State.  m is the Money the caller holds (<<>>: none yet); call is the   *)
(* last call: its inputs, and out, err, str, rounded, what it returned.    *)
(* A run is: one call of a constructor (or of round), then the caller      *)
(* takes the result and calls a method on it, and may take a part that     *)
(* Split returned and go on with that.                                     *)

Blank ==
    [op |-> "none", recv |-> <<>>, value |-> Fin(0), code |-> <<>>, mode |-> 0,
     cents |-> 0, other |-> <<>>, n |-> 0, scale |-> 0, text |-> <<>>,
     cur |-> CurrencyOf(<<>>, 0, ZeroFormat), opts |-> ZeroFormat,
     out |-> <<>>, err |-> NilErr, str |-> <<>>, rounded |-> 0]

Init ==
    /\ m = <<>>
    /\ call = Blank

\* nothing was called yet
Idle == call.op = "none"

\* the caller holds a Money and no call is pending on it
Holding == call.op = "Take"

\* out, err := New(value, code, mode)
CallNew(value, code, mode) ==
    /\ (~IsNaNOrInf(value) /\ Registered(ToUpper(code)))
          => RoundInRange(value.num * Pow10(Currencies[ToUpper(code)]),
                          Currencies[ToUpper(code)])
    /\ LET r == New(value, code, mode)
       IN  call' = [Blank EXCEPT !.op = "New", !.value = value, !.code = code,
                                 !.mode = mode, !.out = r.out, !.err = r.err]
    /\ UNCHANGED m

\* out, err := NewFromSmallestUnit(cents, code)
CallNewFromSmallestUnit(cents, code) ==
    /\ LET r == NewFromSmallestUnit(cents, code)
       IN  call' = [Blank EXCEPT !.op = "NewFromSmallestUnit", !.cents = cents,
                                 !.code = code, !.out = r.out, !.err = r.err]
    /\ UNCHANGED m

\* the float64 arithmetic of Parse(text, cur, mode) is exact
ParseInRange(text, cur) ==
    LET norm == Normalize(text, cur)
    IN  NumberRegexMatch(norm) =>
           /\ ExactLiteral(norm)
           /\ Abs(ParseFloat(norm).num) <= MaxScaled * FloatDen
           /\ Registered(ToUpper(cur.Code)) =>
                 RoundInRange(ParseFloat(norm).num * Pow10(Currencies[ToUpper(cur.Code)]),
                              Currencies[ToUpper(cur.Code)])

\* out, err := Parse(text, cur, mode)
CallParse(text, cur, mode) ==
    /\ ParseInRange(text, cur)
    /\ LET r == Parse(text, cur, mode)
       IN  call' = [Blank EXCEPT !.op = "Parse", !.text = text, !.cur = cur,
                                 !.mode = mode, !.out = r.out, !.err = r.err]
    /\ UNCHANGED m

\* out, err := m.Add(other)
CallAdd(other) ==
    /\ LET r == Add(m[1], other)
       IN  call' = [Blank EXCEPT !.op = "Add", !.recv = m, !.other = <<other>>,
                                 !.out = r.out, !.err = r.err]
    /\ UNCHANGED m

\* out, err := m.Subtract(other)
CallSubtract(other) ==
    /\ LET r == Subtract(m[1], other)
       IN  call' = [Blank EXCEPT !.op = "Subtract", !.recv = m,
                                 !.other = <<other>>, !.out = r.out, !.err = r.err]
    /\ UNCHANGED m

\* out, err := m.Multiply(factor, mode)
CallMultiply(factor, mode) ==
    /\ ~IsNaNOrInf(factor) => RoundInRange(m[1].amount * factor.num, m[1].scale)
    /\ LET r == Multiply(m[1], factor, mode)
       IN  call' = [Blank EXCEPT !.op = "Multiply", !.recv = m, !.value = factor,
                                 !.mode = mode, !.out = r.out, !.err = r.err]
    /\ UNCHANGED m

\* out, err := m.Divide(divisor)
CallDivide(divisor) ==
    /\ \E r \in Divide(m[1], divisor) :
          call' = [Blank EXCEPT !.op = "Divide", !.recv = m, !.value = divisor,
                                !.out = r.out, !.err = r.err]
    /\ UNCHANGED m

\* out, err := m.Split(n)
CallSplit(n) ==
    /\ LET r == Split(m[1], n)
       IN  call' = [Blank EXCEPT !.op = "Split", !.recv = m, !.n = n,
                                 !.out = r.out, !.err = r.err]
    /\ UNCHANGED m

\* str := m.Format(opts)
CallFormat(opts) ==
    /\ call' = [Blank EXCEPT !.op = "Format", !.recv = m, !.opts = opts,
                             !.str = Format(m[1], opts)]
    /\ UNCHANGED m

\* rounded := round(num/FloatDen, scale, mode), as New and Multiply call it
CallRound(num, scale, mode) ==
    /\ RoundInRange(num, scale)
    /\ call' = [Blank EXCEPT !.op = "round", !.value = Fin(num), !.scale = scale,
                             !.mode = mode, !.rounded = round(num, scale, mode)]
    /\ UNCHANGED m

\* m = out[i]: the caller goes on with the Money a constructor returned, or
\* with a part Split returned
Take(i) ==
    /\ call.op \in {"New", "NewFromSmallestUnit", "Parse", "Split"}
    /\ i \in DOMAIN call.out
    /\ call.op = "Split" => Abs(call.out[i].amount) <= MaxTake
    /\ m' = <<call.out[i]>>
    /\ call' = [Blank EXCEPT !.op = "Take"]

NewStep ==
    /\ Idle
    /\ \E value \in Values, code \in Codes, mode \in Modes :
          CallNew(value, code, mode)

NewFromSmallestUnitStep ==
    /\ Idle
    /\ \E cents \in Cents, code \in Codes : CallNewFromSmallestUnit(cents, code)

ParseStep ==
    /\ Idle
    /\ \E text \in ParseInputs, cur \in ParseCurrencies, mode \in Modes :
          CallParse(text, cur, mode)

RoundStep ==
    /\ Idle
    /\ \E num \in -MaxRoundNum .. MaxRoundNum, scale \in Scales, mode \in Modes :
          CallRound(num, scale, mode)

AddStep == Holding /\ \E other \in OtherMoneys : CallAdd(other)

SubtractStep == Holding /\ \E other \in OtherMoneys : CallSubtract(other)

MultiplyStep ==
    Holding /\ \E factor \in Factors, mode \in Modes : CallMultiply(factor, mode)

DivideStep == Holding /\ \E divisor \in Factors : CallDivide(divisor)

SplitStep == Holding /\ \E n \in -1 .. MaxParts : CallSplit(n)

FormatStep == Holding /\ \E opts \in FormatChoices : CallFormat(opts)

TakeStep == \E i \in 1 .. MaxParts : Take(i)

Next ==
    \/ NewStep
    \/ NewFromSmallestUnitStep
    \/ ParseStep
    \/ RoundStep
    \/ AddStep
    \/ SubtractStep
    \/ MultiplyStep
    \/ DivideStep
    \/ SplitStep
    \/ FormatStep
    \/ TakeStep

Spec == Init /\ [][Next]_vars

---------------------------------------------------------------------------
(* Properties *)

RECURSIVE SumAmounts(_)
SumAmounts(ms) ==
    IF ms = <<>> THEN 0 ELSE Head(ms).amount + SumAmounts(Tail(ms))

\* C1: for every amount a and every n > 0, Split(n) returns exactly n Money
\* values whose amounts sum to a, also when a is negative and a % n is not 0.
C1_SplitSumsToAmount ==
    (call.op = "Split" /\ call.n > 0) =>
        /\ call.err = NilErr
        /\ Len(call.out) = call.n
        /\ SumAmounts(call.out) = call.recv[1].amount

\* C2: New(value, code, mode) of a registered currency of scale s returns the
\* amount value * 10^s rounded by mode, the scaling applied once; when
\* value * 10^s is a whole number k, New with RoundHalfUp returns k.
C2_NewScalesOnce ==
    (call.op = "New" /\ call.err = NilErr) =>
        LET s  == Currencies[ToUpper(call.code)]
            k8 == call.value.num * Pow10(s)
        IN  /\ Len(call.out) = 1
            /\ call.out[1].amount = round(call.value.num, s, call.mode)
            /\ (call.mode = RoundHalfUp /\ k8 % FloatDen = 0)
                  => call.out[1].amount = k8 \div FloatDen

\* C3: when New fails it returns no Money and one of the declared error
\* values, the same value by identity: ErrInvalidAmount for NaN and the
\* infinities, ErrInvalidCurrency for a finite amount and an unregistered code.
C3_NewFailsWithSentinel ==
    (call.op = "New" /\ call.err # NilErr) =>
        /\ call.out = <<>>
        /\ call.err \in Sentinels
        /\ IsNaNOrInf(call.value) => call.err = ErrInvalidAmount
        /\ (~IsNaNOrInf(call.value) /\ ~Registered(ToUpper(call.code)))
              => call.err = ErrInvalidCurrency

\* C4: x.Add(y) and x.Subtract(y) return no Money and
\* ErrCannotDealWithDifferentCurrencies exactly when the currency codes differ;
\* when the codes are equal and registered the result is a Money with amount
\* x.amount + y.amount (x.amount - y.amount), the same currency, the currency's
\* scale and divisor 10^scale.
C4_AddSubtract ==
    (call.op \in {"Add", "Subtract"}) =>
        LET x == call.recv[1]
            y == call.other[1]
            amount == IF call.op = "Add" THEN x.amount + y.amount
                                         ELSE x.amount - y.amount
        IN  /\ (call.out = <<>> /\ call.err = ErrCannotDealWithDifferentCurrencies)
                  <=> (x.currency # y.currency)
            /\ (x.currency = y.currency /\ Registered(x.currency)) =>
                  /\ call.err = NilErr
                  /\ call.out = <<[amount   |-> amount,
                                   currency |-> x.currency,
                                   scale    |-> Currencies[x.currency],
                                   divisor  |-> Pow10(Currencies[x.currency])]>>

\* C4's case: Add on a part Split returned (its divisor is 0) and a Money of
\* the same currency, and a sum was returned
C4_Witness ==
    /\ call.op = "Add"
    /\ call.recv[1].divisor = 0
    /\ call.recv[1].currency = call.other[1].currency
    /\ call.other[1].amount # 0
    /\ call.out # <<>>

\* C5: under RoundHalfEven a scaled value whose fraction is exactly 0.5 in
\* absolute value, positive or negative, is rounded to the even one of its two
\* neighbours; every other scaled value is rounded as by RoundHalfUp.
C5_HalfEvenTiesToEven ==
    (call.op = "round" /\ call.mode = RoundHalfEven) =>
        LET scaled == call.value.num * Pow10(call.scale)
        IN  IF scaled % FloatDen = FloatDen \div 2
            THEN /\ call.rounded % 2 = 0
                 /\ 2 * Abs(call.rounded * FloatDen - scaled) = FloatDen
            ELSE call.rounded = round(call.value.num, call.scale, RoundHalfUp)

\* C6: under RoundHalfDown round returns floor(scaled + 0.5 - 0.00001) for
\* every scaled value, negative as well as positive; a scaled value that is an
\* integer k is returned as k.
C6_HalfDownIsFloor ==
    (call.op = "round" /\ call.mode = RoundHalfDown) =>
        LET scaled == call.value.num * Pow10(call.scale)
        IN  /\ call.rounded =
                  MathFloor(scaled * (EpsDen \div FloatDen) + (EpsDen \div 2) - 1,
                            EpsDen)
            /\ scaled % FloatDen = 0 => call.rounded = scaled \div FloatDen

\* C7: every Money returned by New, NewFromSmallestUnit, Add, Subtract,
\* Multiply, Divide, Parse, and every part returned by Split, has the scale of
\* its currency in the registry and divisor 10^scale, so that
\* NewFromSmallestUnit(m.SmallestUnit(), m.Currency()) equals it in all fields.
C7_ScaleAndDivisor ==
    (call.op \in {"New", "NewFromSmallestUnit", "Add", "Subtract", "Multiply",
                  "Divide", "Parse", "Split"}) =>
        \A i \in DOMAIN call.out :
            LET x == call.out[i]
            IN  /\ Registered(x.currency)
                /\ x.scale = Currencies[x.currency]
                /\ x.divisor = Pow10(x.scale)
                /\ NewFromSmallestUnit(SmallestUnit(x), Currency(x)).out = <<x>>

\* the digits of i, at least width of them
RECURSIVE ZeroPadded(_, _)
ZeroPadded(i, width) ==
    IF width <= 1 /\ i < 10 THEN <<Digits[i + 1]>>
    ELSE ZeroPadded(i \div 10, width - 1) \o <<Digits[(i % 10) + 1]>>

\* the integer i >= 0, its digits grouped in threes from the right by sep
RECURSIVE Grouped(_, _)
Grouped(i, sep) ==
    IF i < 1000 THEN ZeroPadded(i, 1)
    ELSE Grouped(i \div 1000, sep) \o sep \o ZeroPadded(i % 1000, 3)

\* |a| with at least one integer digit, grouped, and exactly s fraction digits
Numeral(a, s, opts) ==
    Grouped(Abs(a) \div Pow10(s), opts.ThousandsSep)
    \o (IF s > 0 THEN opts.DecimalSep \o ZeroPadded(Abs(a) % Pow10(s), s)
                 ELSE <<>>)

\* C8: Format returns sign + Symbol + (a space if SpaceBetween) + numeral +
\* (a space and the currency code if ShowCurrency) when SymbolFirst, and
\* sign + numeral + (a space if SpaceBetween) + Symbol + (a space and the
\* currency code if ShowCurrency) otherwise; sign is "-" exactly when the
\* amount is negative, and the numeral is the absolute amount, grouped in
\* threes by ThousandsSep, with DecimalSep and exactly scale fraction digits
\* when scale > 0.
C8_FormatLayout ==
    (call.op = "Format") =>
        LET x       == call.recv[1]
            opts    == call.opts
            sign    == IF x.amount < 0 THEN <<"-">> ELSE <<>>
            between == IF opts.SpaceBetween THEN <<" ">> ELSE <<>>
            code    == IF opts.ShowCurrency THEN <<" ">> \o x.currency ELSE <<>>
            numeral == Numeral(x.amount, x.scale, opts)
        IN  call.str = IF opts.SymbolFirst
                       THEN sign \o opts.Symbol \o between \o numeral \o code
                       ELSE sign \o numeral \o between \o opts.Symbol \o code

\* s without the occurrences of old; nothing is removed when old is empty
Without(s, old) == IF old = <<>> THEN s ELSE ReplaceNonEmpty(s, old, <<>>)

\* the input as C9 strips it: trimmed, the symbol and the thousands separator
\* removed, the decimal separator (when there is one) replaced by "."
Stripped(s, cur) ==
    LET s1 == TrimSpace(s)
        s2 == Without(s1, cur.DefaultFormat.Symbol)
        s3 == Without(s2, cur.DefaultFormat.ThousandsSep)
        s4 == IF cur.DefaultFormat.DecimalSep = <<>> THEN s3
              ELSE ReplaceNonEmpty(s3, cur.DefaultFormat.DecimalSep, <<".">>)
    IN  TrimSpace(s4)

\* optional "-", digits, optional single "." followed by digits
NumberForm(s) ==
    LET body == IF s # <<>> /\ s[1] = "-" THEN Tail(s) ELSE s
        dots == {i \in DOMAIN body : body[i] = "."}
    IN  /\ body # <<>>
        /\ IsDigit(body[Len(body)])
        /\ Cardinality(dots) <= 1
        /\ \A i \in DOMAIN body : IsDigit(body[i]) \/ body[i] = "."

\* C9: for every input and every Currency, also one whose symbol and
\* separators are empty, Parse returns no Money and ErrParseAmount exactly
\* when the stripped input is not of the number form; an input of that form
\* is passed to New with the given code and mode.
C9_ParseRejectsExactlyMalformed ==
    (call.op = "Parse") =>
        LET stripped == Stripped(call.text, call.cur)
        IN  /\ (call.out = <<>> /\ call.err = ErrParseAmount)
                  <=> ~NumberForm(stripped)
            /\ NumberForm(stripped) =>
                  LET r == New(ParseFloat(stripped), call.cur.Code, call.mode)
                  IN  call.out = r.out /\ call.err = r.err

\* C10: for every Money of a registered currency and every integer factor f,
\* Multiply(f, mode) returns the amount m.amount * f, whatever the mode and
\* the scale; Multiply(1, mode) returns the amount of m.
C10_MultiplyByInteger ==
    (call.op = "Multiply" /\ ~IsNaNOrInf(call.value)
        /\ call.value.num % FloatDen = 0 /\ Registered(call.recv[1].currency)) =>
        /\ call.err = NilErr
        /\ Len(call.out) = 1
        /\ call.out[1].amount = call.recv[1].amount * (call.value.num \div FloatDen)

=============================================================================
